---- MODULE Spec2Model ----
(***************************************************************************)
(* Rotary controls of the camera front end: the discrete ModeDial          *)
(* (components/ModeDial.js and its earlier variants) and the continuous    *)
(* Dial (components/Dial.js).                                              *)
(*                                                                         *)
(* Angles are whole degrees.  The even label spacing 360 / modes.length is *)
(* exact for the list lengths used here (divisors of 360).  Pointer events *)
(* carry clientX/clientY; the sample positions are ones for which          *)
(* Math.atan2 is a multiple of 45 degrees or is taken to the nearest       *)
(* degree.                                                                 *)
(***************************************************************************)
EXTENDS Integers, Sequences, FiniteSets, TLC

VARIABLES
  mounted,          \* which component the page under test renders
  modes,            \* ModeDial prop: ordered labels
  value,            \* ModeDial prop: current label, owned by the parent
  ownerStores,      \* the parent's onChange stores the label (App: setMode)
  rotation,         \* ModeDial state: useState(0)
  draggingRef,      \* ModeDial ref
  baseRotationRef,  \* ModeDial ref
  startAngleRef,    \* ModeDial ref
  emitted,          \* labels passed to ModeDial onChange by the last event
  dragEmits,        \* onChange calls by pointer handlers since pointer-down
  cfg,              \* Dial props min, max, step
  dialValue,        \* Dial prop value, owned by the parent
  dragging,         \* Dial state: useState(false)
  disabled,         \* Dial prop
  dialEmitted,      \* numbers passed to Dial onChange by the last event
  cancelSeen,       \* a pointer-cancel reached the Dial since pointer-down
  lastEvent,        \* the event the last step handled
  lastPoint,        \* the pointer position of the last pointer-down or move
  downRotation,     \* the rotation on screen when the last pointer-down came
  downAngle,        \* the pointer angle of the last pointer-down
  probe,            \* an angle map applied to chosen arguments
  layout,           \* "sized", or "zero" when the rotor is laid out with no area
  other,            \* a second Dial on the page: its value, dragging, emitted
  app               \* App: camera stream, getUserMedia calls, photos

vars == <<mounted, modes, value, ownerStores, rotation, draggingRef,
          baseRotationRef, startAngleRef, emitted, dragEmits, cfg, dialValue,
          dragging, disabled, dialEmitted, cancelSeen, lastEvent, lastPoint,
          downRotation, downAngle, probe, layout, other, app>>

mdVars == <<modes, value, ownerStores, rotation, draggingRef,
            baseRotationRef, startAngleRef, emitted, dragEmits,
            downRotation, downAngle>>

dialVars == <<cfg, dialValue, dragging, disabled, dialEmitted, cancelSeen>>

----------------------------------------------------------------------------
(* Bounds *)

\* longest label list
MaxModes == 5

\* full turns, either way, of the angles and shifts normalizeDeg is tried on
MaxTurns == 2

\* getUserMedia calls in one life of App, the one of the mount effect included
MaxRequests == 3

\* photos taken in one life of App: more than the list keeps
MaxShots == 14

\* saturation of the per-drag onChange counter
MaxDragEmits == 2

----------------------------------------------------------------------------
(* JavaScript arithmetic *)

Abs(x) == IF x < 0 THEN -x ELSE x

Min2(a, b) == IF a < b THEN a ELSE b

Max2(a, b) == IF a > b THEN a ELSE b

\* the % operator: the remainder takes the sign of the dividend
JsRem(a, m) == IF a >= 0 THEN a % m ELSE -((-a) % m)

\* Math.round of the rational p/q (q > 0): floor(p/q + 1/2)
MathRound(p, q) == (2 * p + q) \div (2 * q)

\* Math.atan2(dy, dx) in degrees, for dx = 0, dy = 0 or |dx| = |dy|, and to
\* the nearest degree for |dx| = 2|dy| (26.57 as 27) and |dy| = 2|dx| (63.43
\* as 63)
Atan2Deg(dy, dx) ==
  IF dy = 0 THEN (IF dx >= 0 THEN 0 ELSE 180)
  ELSE IF dx = 0 THEN (IF dy > 0 THEN 90 ELSE -90)
  ELSE IF Abs(dy) = 2 * Abs(dx)
  THEN (IF dy > 0 THEN (IF dx > 0 THEN 63 ELSE 117)
        ELSE (IF dx > 0 THEN -63 ELSE -117))
  ELSE IF Abs(dx) = 2 * Abs(dy)
  THEN (IF dy > 0 THEN (IF dx > 0 THEN 27 ELSE 153)
        ELSE (IF dx > 0 THEN -27 ELSE -153))
  ELSE IF dy > 0 THEN (IF dx > 0 THEN 45 ELSE 135)
  ELSE (IF dx > 0 THEN -45 ELSE -135)

\* NaN as an index: it is equal to no index and names no element
NaN == 0 - 1000000

\* the bestDist a search starts from
Infinity == 1000000

\* Array.prototype.findIndex(m => m === x): 0-based, -1 when absent
findIndex(ms, x) ==
  IF \E i \in 1..Len(ms) : ms[i] = x
  THEN (CHOOSE i \in 1..Len(ms) : ms[i] = x /\ \A j \in 1..(i - 1) : ms[j] # x) - 1
  ELSE -1

\* ms[i] with a 0-based index; out of range reads undefined
At(ms, i) == IF i \in 0..(Len(ms) - 1) THEN ms[i + 1] ELSE "undefined"

\* the % operator with a divisor that may be 0: NaN then
JsRemOrNaN(a, m) == IF m = 0 THEN NaN ELSE JsRem(a, m)

\* modes.length || 1
lengthOr1(ms) == IF Len(ms) = 0 THEN 1 ELSE Len(ms)

----------------------------------------------------------------------------
(* ModeDial.js: geometry and angle maps *)

\* default size prop
size == 56

\* getBoundingClientRect() of the rotor
rotorRect ==
  IF layout = "zero" THEN [left |-> 0, top |-> 0, width |-> 0, height |-> 0]
  ELSE [left |-> 0, top |-> 0, width |-> size, height |-> size]

\* sample pointer positions: the centre of the rotor and the points above,
\* right of, below and left of it
PointerPoints ==
  {e \in [clientX : {0, size \div 2, size}, clientY : {0, size \div 2, size}] :
     e.clientX = size \div 2 \/ e.clientY = size \div 2}

\* normalizeDeg without the correction of a negative remainder
normalizeDeg_remainder(deg) == JsRem(deg, 360)

\* Math.cos and Math.sin of a multiple of 90 degrees
Cos90(a) == CASE a % 360 = 0 -> 1 [] a % 360 = 180 -> 0 - 1 [] OTHER -> 0

Sin90(a) == CASE a % 360 = 90 -> 1 [] a % 360 = 270 -> 0 - 1 [] OTHER -> 0

\* polar(center, r, angleDegClockwiseFromTop) for a multiple of 90 degrees
polar(center, r, angleDegClockwiseFromTop) ==
  LET a == angleDegClockwiseFromTop - 90
  IN [x |-> center.x + r * Cos90(a), y |-> center.y + r * Sin90(a)]

normalizeDeg(deg) ==
  LET d == JsRem(deg, 360) IN IF d < 0 THEN d + 360 ELSE d

angleFromCenterClockwiseFromTop(cx, cy, x, y) ==
  LET dx == x - cx
      dy == y - cy
      angleFromRight == Atan2Deg(dy, dx)
      cw == 270 - angleFromRight
  IN JsRem(JsRem(cw, 360) + 360, 360)

\* the angle of a pointer event about the centre of the rotor
pointerAngle(e) ==
  LET cx == rotorRect.left + rotorRect.width \div 2
      cy == rotorRect.top + rotorRect.height \div 2
  IN angleFromCenterClockwiseFromTop(cx, cy, e.clientX, e.clientY)

\* modesWithAngles that puts the first label one spacing after the top
modesWithAngles_fromOne(ms) ==
  LET step == 360 \div lengthOr1(ms)
  IN [i \in 1..Len(ms) |-> [mode |-> ms[i], angle |-> i * step]]

modesWithAngles(ms) ==
  LET step == 360 \div lengthOr1(ms)
  IN [i \in 1..Len(ms) |-> [mode |-> ms[i], angle |-> (i - 1) * step]]

\* modeToRotation with the index counted from 1
modeToRotation_offByOne(mode, ms) ==
  LET step == 360 \div lengthOr1(ms)
      idx == Max2(0, findIndex(ms, mode)) + 1
  IN JsRem(idx * step, 360)

modeToRotation(mode, ms) ==
  LET step == 360 \div lengthOr1(ms)
      idx == Max2(0, findIndex(ms, mode))
  IN JsRem(idx * step, 360)

\* the search with <= for <: of equally near labels the last one wins
RECURSIVE rotationToModeLoop_lastWins(_, _, _, _, _)
rotationToModeLoop_lastWins(i, best, bestDist, deg, ms) ==
  IF i >= Len(ms) THEN best
  ELSE LET step == 360 \div lengthOr1(ms)
           target == JsRem(i * step, 360)
           diff == Abs(target - deg)
           dist == Min2(diff, 360 - diff)
       IN IF dist <= bestDist
          THEN rotationToModeLoop_lastWins(i + 1, i, dist, deg, ms)
          ELSE rotationToModeLoop_lastWins(i + 1, best, bestDist, deg, ms)

RECURSIVE rotationToModeLoop(_, _, _, _, _)
rotationToModeLoop(i, best, bestDist, deg, ms) ==
  IF i >= Len(ms) THEN best
  ELSE LET step == 360 \div lengthOr1(ms)
           target == JsRem(i * step, 360)
           diff == Abs(target - deg)
           dist == Min2(diff, 360 - diff)
       IN IF dist < bestDist
          THEN rotationToModeLoop(i + 1, i, dist, deg, ms)
          ELSE rotationToModeLoop(i + 1, best, bestDist, deg, ms)

rotationToMode(deg, ms) == At(ms, rotationToModeLoop(0, 0, Infinity, deg, ms))

----------------------------------------------------------------------------
(* Earlier variants of ModeDial: the angle maps *)

\* pointer at the top
pointerOffsetDeg == 0

\* part_001: the knob turns against the label order
rotationTarget1(i, ms) ==
  LET step == 360 \div lengthOr1(ms)
  IN JsRem(360 - (i * step + pointerOffsetDeg), 360)

modeToRotation1(mode, ms) ==
  rotationTarget1(Max2(0, findIndex(ms, mode)), ms)

RECURSIVE rotationToModeLoop1(_, _, _, _, _)
rotationToModeLoop1(i, best, bestDist, deg, ms) ==
  IF i >= Len(ms) THEN best
  ELSE LET target == rotationTarget1(i, ms)
           d == Min2(Abs(target - deg), 360 - Abs(target - deg))
       IN IF d < bestDist
          THEN rotationToModeLoop1(i + 1, i, d, deg, ms)
          ELSE rotationToModeLoop1(i + 1, best, bestDist, deg, ms)

rotationToMode1(deg, ms) == At(ms, rotationToModeLoop1(0, 0, Infinity, deg, ms))

\* part_002: hand-tuned angles for the canonical label set
canonical == <<"AUTO", "P", "A", "S", "M">>

angleMap == [AUTO |-> 0, P |-> 68, A |-> 152, S |-> 208, M |-> 296]

includes(ms, x) == \E i \in 1..Len(ms) : ms[i] = x

modesWithAngles2(ms) ==
  LET N == lengthOr1(ms)
      isCanonicalSet ==
        N = 5 /\ \A k \in 1..Len(canonical) : includes(ms, canonical[k])
      step == 360 \div N
  IN IF isCanonicalSet
     THEN [i \in 1..Len(ms) |->
             [mode |-> ms[i],
              angle |-> IF ms[i] \in DOMAIN angleMap THEN angleMap[ms[i]] ELSE 0]]
     ELSE [i \in 1..Len(ms) |-> [mode |-> ms[i], angle |-> (i - 1) * step]]

modeToRotation2(mode, ms) ==
  LET mwa == modesWithAngles2(ms)
      idx == findIndex([i \in 1..Len(ms) |-> mwa[i].mode], mode)
  IN IF idx >= 0 THEN JsRem(mwa[idx + 1].angle, 360) ELSE 0

RECURSIVE rotationToModeLoop2(_, _, _, _, _)
rotationToModeLoop2(i, bestMode, bestDist, deg, ms) ==
  IF i >= Len(ms) THEN bestMode
  ELSE LET entry == modesWithAngles2(ms)[i + 1]
           diff == Abs(entry.angle - deg)
           d == Min2(diff, 360 - diff)
       IN IF d < bestDist
          THEN rotationToModeLoop2(i + 1, entry.mode, d, deg, ms)
          ELSE rotationToModeLoop2(i + 1, bestMode, bestDist, deg, ms)

rotationToMode2(deg, ms) == rotationToModeLoop2(0, At(ms, 0), Infinity, deg, ms)

\* part_003: the label ring turns with the knob
modeToRotation3(mode, ms) ==
  LET step == 360 \div lengthOr1(ms)
      idx == Max2(0, findIndex(ms, mode))
  IN JsRem(360 - (idx * step + pointerOffsetDeg), 360)

RECURSIVE rotationToModeLoop3(_, _, _, _, _)
rotationToModeLoop3(i, best, bestDist, deg, ms) ==
  IF i >= Len(ms) THEN best
  ELSE LET step == 360 \div lengthOr1(ms)
           labelAngle == JsRem(i * step + pointerOffsetDeg - (360 - deg), 360)
           d == Min2(Abs(labelAngle), 360 - Abs(labelAngle))
       IN IF d < bestDist
          THEN rotationToModeLoop3(i + 1, i, d, deg, ms)
          ELSE rotationToModeLoop3(i + 1, best, bestDist, deg, ms)

rotationToMode3(deg, ms) == At(ms, rotationToModeLoop3(0, 0, Infinity, deg, ms))

\* the four versions of the component
Variants == {"ModeDial.js", "part_001", "part_002", "part_003"}

modeToRotationOf(variant, mode, ms) ==
  CASE variant = "ModeDial.js" -> modeToRotation(mode, ms)
    [] variant = "part_001" -> modeToRotation1(mode, ms)
    [] variant = "part_002" -> modeToRotation2(mode, ms)
    [] variant = "part_003" -> modeToRotation3(mode, ms)

rotationToModeOf(variant, deg, ms) ==
  CASE variant = "ModeDial.js" -> rotationToMode(deg, ms)
    [] variant = "part_001" -> rotationToMode1(deg, ms)
    [] variant = "part_002" -> rotationToMode2(deg, ms)
    [] variant = "part_003" -> rotationToMode3(deg, ms)

\* the angle at which a variant places the label of index i (1-based) on
\* the ring
modesWithAnglesOf(variant, ms) ==
  IF variant = "part_002" THEN modesWithAngles2(ms) ELSE modesWithAngles(ms)

----------------------------------------------------------------------------
(* ModeDial.js: event handlers.  A handler yields the component state it   *)
(* leaves behind and the labels it passed to onChange.                     *)

\* the state as a handler that returns early leaves it
mdKeep ==
  [rotation |-> rotation, draggingRef |-> draggingRef,
   baseRotationRef |-> baseRotationRef, startAngleRef |-> startAngleRef,
   emit |-> <<>>]

onPointerDown(e) ==
  [mdKeep EXCEPT !.draggingRef = TRUE,
                 !.startAngleRef = pointerAngle(e),
                 !.baseRotationRef = rotation]

\* onPointerMove that turns the knob to the pointer angle itself
onPointerMove_absolute(e) ==
  IF ~draggingRef THEN mdKeep
  ELSE [mdKeep EXCEPT !.rotation = normalizeDeg(pointerAngle(e))]

\* onPointerMove that reports the nearest label while the drag goes on
onPointerMove_liveEmit(e) ==
  IF ~draggingRef THEN mdKeep
  ELSE LET next == normalizeDeg(baseRotationRef + (pointerAngle(e) - startAngleRef))
       IN [mdKeep EXCEPT !.rotation = next,
                         !.emit = <<rotationToMode(next, modes)>>]

\* onPointerMove that leaves the sum of base and delta as it comes
onPointerMove_noNormalize(e) ==
  IF ~draggingRef THEN mdKeep
  ELSE [mdKeep EXCEPT
          !.rotation = baseRotationRef + (pointerAngle(e) - startAngleRef)]

onPointerMove(e) ==
  IF ~draggingRef THEN mdKeep
  ELSE LET currentAngleClockwise == pointerAngle(e)
           delta == currentAngleClockwise - startAngleRef
       IN [mdKeep EXCEPT !.rotation = normalizeDeg(baseRotationRef + delta)]

\* finishDrag that reports the label and leaves the knob where it is
finishDrag_noSnap ==
  IF ~draggingRef THEN mdKeep
  ELSE [mdKeep EXCEPT !.draggingRef = FALSE,
                      !.emit = <<rotationToMode(rotation, modes)>>]

\* finishDrag without the early return
finishDrag_unguarded ==
  LET chosen == rotationToMode(rotation, modes)
  IN [mdKeep EXCEPT !.draggingRef = FALSE,
                    !.rotation = modeToRotation(chosen, modes),
                    !.emit = <<chosen>>]

finishDrag ==
  IF ~draggingRef THEN mdKeep
  ELSE LET chosen == rotationToMode(rotation, modes)
           snap == modeToRotation(chosen, modes)
       IN [mdKeep EXCEPT !.draggingRef = FALSE,
                         !.rotation = snap,
                         !.emit = <<chosen>>]

onPointerUp == finishDrag

\* a cancel handler that drops the gesture
onPointerCancel_discard == [mdKeep EXCEPT !.draggingRef = FALSE]

\* the rotor's onPointerCancel prop is onPointerUp
onPointerCancel == onPointerUp

\* the keys onKeyDown tells apart, and one it ignores
Keys == {"ArrowRight", "ArrowUp", "ArrowLeft", "ArrowDown", "Home", "End",
         "Enter"}

\* the keys handleKeyDown of the Dial tells apart, and one it ignores
DialKeys == Keys \cup {"PageUp", "PageDown"}

\* onKeyDown that stops at the ends of the list
onKeyDown_noWrap(key) ==
  LET currentIdx == findIndex(modes, value)
      nextIdx ==
        CASE key \in {"ArrowRight", "ArrowUp"} ->
               Min2(currentIdx + 1, Len(modes) - 1)
          [] key \in {"ArrowLeft", "ArrowDown"} -> Max2(currentIdx - 1, 0)
          [] key = "Home" -> 0
          [] key = "End" -> Len(modes) - 1
          [] OTHER -> currentIdx
  IN IF nextIdx # currentIdx
     THEN LET nextMode == At(modes, nextIdx)
          IN [mdKeep EXCEPT !.rotation = modeToRotation(nextMode, modes),
                            !.emit = <<nextMode>>]
     ELSE mdKeep

\* onKeyDown that steps the index without the modulo
onKeyDown_noModulo(key) ==
  LET currentIdx == findIndex(modes, value)
      nextIdx ==
        CASE key \in {"ArrowRight", "ArrowUp"} -> currentIdx + 1
          [] key \in {"ArrowLeft", "ArrowDown"} -> currentIdx - 1
          [] key = "Home" -> 0
          [] key = "End" -> Len(modes) - 1
          [] OTHER -> currentIdx
  IN IF nextIdx # currentIdx
     THEN LET nextMode == At(modes, nextIdx)
          IN [mdKeep EXCEPT !.rotation = modeToRotation(nextMode, modes),
                            !.emit = <<nextMode>>]
     ELSE mdKeep

onKeyDown(key) ==
  LET currentIdx == findIndex(modes, value)
      nextIdx ==
        CASE key \in {"ArrowRight", "ArrowUp"} ->
               JsRemOrNaN(currentIdx + 1, Len(modes))
          [] key \in {"ArrowLeft", "ArrowDown"} ->
               JsRemOrNaN(currentIdx - 1 + Len(modes), Len(modes))
          [] key = "Home" -> 0
          [] key = "End" -> Len(modes) - 1
          [] OTHER -> currentIdx
  IN IF nextIdx # currentIdx
     THEN LET nextMode == At(modes, nextIdx)
          IN [mdKeep EXCEPT !.rotation = modeToRotation(nextMode, modes),
                            !.emit = <<nextMode>>]
     ELSE mdKeep

\* onLabelClick that turns the knob and tells the owner nothing
onLabelClick_silent(mode) ==
  [mdKeep EXCEPT !.rotation = modeToRotation(mode, modes)]

onLabelClick(mode) ==
  [mdKeep EXCEPT !.rotation = modeToRotation(mode, modes),
                 !.emit = <<mode>>]

\* useEffect(() => setRotation(modeToRotation(value)), [value, modes])
\* the effect reading the value of the render before
rotationEffect_stale(v, ms) == modeToRotation(value, ms)

rotationEffect(v, ms) == modeToRotation(v, ms)

----------------------------------------------------------------------------
(* Dial.js *)

sweep == 270

startAngle == -135

\* default size prop of the Dial
dialSize == 64

dialRect ==
  IF layout = "zero" THEN [left |-> 0, top |-> 0, width |-> 0, height |-> 0]
  ELSE [left |-> 0, top |-> 0, width |-> dialSize, height |-> dialSize]

\* sample pointer positions: the centre, the 8 compass positions, and two
\* positions on the left edge, above and below the middle
DialPoints ==
  {[clientX |-> x, clientY |-> y] :
     x \in {0, dialSize \div 2, dialSize}, y \in {0, dialSize \div 2, dialSize}}
  \cup {[clientX |-> 0, clientY |-> dialSize \div 4],
        [clientX |-> 0, clientY |-> 3 * (dialSize \div 4)]}

clamp(v) == Max2(cfg.min, Min2(cfg.max, v))

\* max - min with no replacement of 0
rangeOr1_zero == cfg.max - cfg.min

\* max - min || 1
rangeOr1 == IF cfg.max - cfg.min = 0 THEN 1 ELSE cfg.max - cfg.min

\* valueToAngle of the value itself, not of clamp(value)
valueToAngle_noClamp(v) ==
  [num |-> startAngle * rangeOr1 + (v - cfg.min) * sweep,
   den |-> rangeOr1]

\* valueToAngle that runs from the end of the sweep back to its start
valueToAngle_reversed(v) ==
  [num |-> (startAngle + sweep) * rangeOr1 - (clamp(v) - cfg.min) * sweep,
   den |-> rangeOr1]

\* the angle as the rational num / den
valueToAngle(v) ==
  [num |-> startAngle * rangeOr1 + (clamp(v) - cfg.min) * sweep,
   den |-> rangeOr1]

\* angleToValue of the angle num / den (den > 0); a is aNum / den and
\* raw / step is (min * sweep * den + aNum * (max - min)) / (sweep * den * step)
angleToValueAt(num, den) ==
  LET aNum == Max2(0, Min2(sweep * den, num - startAngle * den))
      snapped == MathRound(cfg.min * sweep * den + aNum * (cfg.max - cfg.min),
                           sweep * den * cfg.step) * cfg.step
  IN clamp(snapped)

\* angleToValue of a whole number of degrees
angleToValue(angle) == angleToValueAt(angle, 1)

withinSweep(ang, s, eang) ==
  IF s <= eang THEN ang >= s /\ ang <= eang ELSE ang >= s \/ ang <= eang

dist(a, b) ==
  LET d == Abs(a - b) IN IF d > 180 THEN 360 - d ELSE d

\* a Dial instance whose dragging state is d, as a handler that returns
\* early leaves it
dialKeepOf(d) == [dragging |-> d, emit |-> <<>>]

handlePointerDownOf(d) ==
  IF disabled THEN dialKeepOf(d) ELSE [dialKeepOf(d) EXCEPT !.dragging = TRUE]

handlePointerUpOf(d) == [dialKeepOf(d) EXCEPT !.dragging = FALSE]

\* handlePointerMove without the test of dragging
handlePointerMoveOf_unguarded(d, e) ==
  LET cx == dialRect.left + dialRect.width \div 2
      cy == dialRect.top + dialRect.height \div 2
      atan == Atan2Deg(e.clientY - cy, e.clientX - cx)
      angle == IF atan < 0 THEN atan + 360 ELSE atan
      s == JsRem(startAngle + 360, 360)
      eang == JsRem(startAngle + sweep + 360, 360)
      targetAngle ==
        IF ~withinSweep(angle, s, eang)
        THEN (IF dist(angle, s) < dist(angle, eang) THEN s ELSE eang)
        ELSE angle
      newVal == angleToValue(IF targetAngle >= 180
                             THEN targetAngle - 360 ELSE targetAngle)
  IN [dialKeepOf(d) EXCEPT !.emit = <<newVal>>]

handlePointerMoveOf(d, e) ==
  IF ~d THEN dialKeepOf(d)
  ELSE LET cx == dialRect.left + dialRect.width \div 2
           cy == dialRect.top + dialRect.height \div 2
           dx == e.clientX - cx
           dy == e.clientY - cy
           atan == Atan2Deg(dy, dx)
           atan1 == IF atan < -180 THEN atan + 360 ELSE atan
           angle == IF atan1 < 0 THEN atan1 + 360 ELSE atan1
           s == JsRem(startAngle + 360, 360)
           eang == JsRem(startAngle + sweep + 360, 360)
           targetAngle ==
             IF ~withinSweep(angle, s, eang)
             THEN (IF dist(angle, s) < dist(angle, eang) THEN s ELSE eang)
             ELSE angle
           newVal == angleToValue(IF targetAngle >= 180
                                  THEN targetAngle - 360 ELSE targetAngle)
       IN [dialKeepOf(d) EXCEPT !.emit = <<newVal>>]

\* window 'mouseup' listener installed on mount
onMouseUpOf(d) == [dialKeepOf(d) EXCEPT !.dragging = FALSE]

\* the handlers of the Dial under test
dialKeep == dialKeepOf(dragging)

handlePointerDown == handlePointerDownOf(dragging)

handlePointerUp == handlePointerUpOf(dragging)

handlePointerMove(e) == handlePointerMoveOf(dragging, e)

\* the rotor has no onPointerCancel prop: the event reaches no handler
handlePointerCancel == dialKeep

onMouseUp == onMouseUpOf(dragging)

\* handleKeyDown without clamp on the arrow and page keys
handleKeyDown_noClamp(key) ==
  IF disabled THEN dialKeep
  ELSE LET big == Max2(cfg.step * 5, (cfg.max - cfg.min) \div 10)
           next ==
             CASE key \in {"ArrowRight", "ArrowUp"} -> dialValue + cfg.step
               [] key \in {"ArrowLeft", "ArrowDown"} -> dialValue - cfg.step
               [] key = "PageUp" -> dialValue + big
               [] key = "PageDown" -> dialValue - big
               [] key = "Home" -> cfg.min
               [] key = "End" -> cfg.max
               [] OTHER -> dialValue
       IN IF next # dialValue THEN [dialKeep EXCEPT !.emit = <<next>>]
          ELSE dialKeep

\* handleKeyDown whose page step is always five steps
handleKeyDown_smallPage(key) ==
  IF disabled THEN dialKeep
  ELSE LET big == cfg.step * 5
           next ==
             CASE key \in {"ArrowRight", "ArrowUp"} -> clamp(dialValue + cfg.step)
               [] key \in {"ArrowLeft", "ArrowDown"} -> clamp(dialValue - cfg.step)
               [] key = "PageUp" -> clamp(dialValue + big)
               [] key = "PageDown" -> clamp(dialValue - big)
               [] key = "Home" -> cfg.min
               [] key = "End" -> cfg.max
               [] OTHER -> dialValue
       IN IF next # dialValue THEN [dialKeep EXCEPT !.emit = <<next>>]
          ELSE dialKeep

\* handleKeyDown that calls onChange whether or not the value changes
handleKeyDown_alwaysEmit(key) ==
  IF disabled THEN dialKeep
  ELSE LET big == Max2(cfg.step * 5, (cfg.max - cfg.min) \div 10)
           next ==
             CASE key \in {"ArrowRight", "ArrowUp"} -> clamp(dialValue + cfg.step)
               [] key \in {"ArrowLeft", "ArrowDown"} -> clamp(dialValue - cfg.step)
               [] key = "PageUp" -> clamp(dialValue + big)
               [] key = "PageDown" -> clamp(dialValue - big)
               [] key = "Home" -> cfg.min
               [] key = "End" -> cfg.max
               [] OTHER -> dialValue
       IN [dialKeep EXCEPT !.emit = <<next>>]

\* value, step and (max - min) / 10 are whole numbers in the configurations
\* used here
handleKeyDown(key) ==
  IF disabled THEN dialKeep
  ELSE LET big == Max2(cfg.step * 5, (cfg.max - cfg.min) \div 10)
           next ==
             CASE key \in {"ArrowRight", "ArrowUp"} -> clamp(dialValue + cfg.step)
               [] key \in {"ArrowLeft", "ArrowDown"} -> clamp(dialValue - cfg.step)
               [] key = "PageUp" -> clamp(dialValue + big)
               [] key = "PageDown" -> clamp(dialValue - big)
               [] key = "Home" -> cfg.min
               [] key = "End" -> cfg.max
               [] OTHER -> dialValue
       IN IF next # dialValue THEN [dialKeep EXCEPT !.emit = <<next>>]
          ELSE dialKeep

----------------------------------------------------------------------------
(* The page under test: one control and the parent that owns its value *)

\* labels: the default modes of ModeDial, then further ones
LabelPool == <<"AUTO", "P", "A", "S", "M", "SCN", "B", "C">>

\* label lists whose even spacing is a whole number of degrees
ModeLists ==
  {SubSeq(LabelPool, 1, n) : n \in {k \in 1..MaxModes : 360 % k = 0}}

\* a value prop that is not one of the labels
Stranger == "X"

\* Dial props: the defaults (min 0, max 100, step 1), the ISO dial of App,
\* and a dial whose min is not a multiple of its step.  Values are whole
\* numbers and (max - min) / 10 is one too.
DialConfigs ==
  {[min |-> 0, max |-> 100, step |-> 1], [min |-> 50, max |-> 800, step |-> 10],
   [min |-> 1, max |-> 11, step |-> 2]}

NoPoint == [clientX |-> -1, clientY |-> -1]

NoProbe == [stage |-> "none"]

\* App not rendered.  stream is 0 for null and the number of the acquired
\* MediaStream otherwise; live holds the streams whose tracks are not stopped;
\* pending counts the getUserMedia promises not yet settled; photos holds the
\* data URLs, each named by the number of its shot
NoApp ==
  [stream |-> 0, live |-> {}, pending |-> 0, acquired |-> 0, calls |-> 0,
   facingMode |-> "user", resolution |-> "1280x720", isReady |-> FALSE,
   error |-> FALSE, unmounted |-> FALSE,
   photos |-> <<>>, shots |-> 0, isCapturing |-> FALSE,
   videoWidth |-> 0, videoHeight |-> 0]

\* no second Dial on the page
NoOther == [value |-> 0, dragging |-> FALSE, emitted |-> <<>>]

mdIdle ==
  /\ modes = <<"AUTO">> /\ value = "AUTO" /\ ownerStores = FALSE
  /\ rotation = 0 /\ draggingRef = FALSE
  /\ baseRotationRef = 0 /\ startAngleRef = 0
  /\ emitted = <<>> /\ dragEmits = 0
  /\ downRotation = 0 /\ downAngle = 0

dialIdle ==
  /\ cfg = [min |-> 0, max |-> 100, step |-> 1] /\ dialValue = 0
  /\ dragging = FALSE /\ disabled = FALSE
  /\ dialEmitted = <<>> /\ cancelSeen = FALSE

\* ModeDial after its first render and mount effect, the modes prop being
\* one of lists and the rotor laid out as lay
InitModeDialOf(lists, lay) ==
  /\ mounted = "ModeDial"
  /\ modes \in lists
  /\ value \in {modes[i] : i \in 1..Len(modes)} \cup {Stranger}
  /\ ownerStores \in BOOLEAN
  /\ rotation = rotationEffect(value, modes)
  /\ draggingRef = FALSE
  /\ baseRotationRef = 0
  /\ startAngleRef = 0
  /\ emitted = <<>>
  /\ dragEmits = 0
  /\ downRotation = 0
  /\ downAngle = 0
  /\ dialIdle
  /\ lastEvent = "mount"
  /\ lastPoint = NoPoint
  /\ probe = NoProbe
  /\ layout = lay
  /\ other = NoOther
  /\ app = NoApp

\* Dial after its first render, its props one of configs, laid out as lay
InitDialWith(configs, lay) ==
  /\ mounted = "Dial"
  /\ cfg \in configs
  /\ dialValue \in {cfg.min - cfg.step, cfg.min, cfg.min + cfg.step, cfg.max,
                    cfg.max + cfg.step}
  /\ dragging = FALSE
  /\ disabled \in BOOLEAN
  /\ dialEmitted = <<>>
  /\ cancelSeen = FALSE
  /\ mdIdle
  /\ lastEvent = "mount"
  /\ lastPoint = NoPoint
  /\ probe = NoProbe
  /\ layout = lay
  /\ other = NoOther
  /\ app = NoApp

InitDialOf(lay) == InitDialWith(DialConfigs, lay)

InitModeDial == InitModeDialOf(ModeLists, "sized")

InitDial == InitDialOf("sized")

Init == InitModeDial \/ InitDial

\* a ModeDial handler ran: its state updates are rendered, and the parent
\* that stores the label re-renders ModeDial, whose effect follows
mdStep(r, evt, pt) ==
  /\ mounted = "ModeDial"
  /\ LET v == IF r.emit # <<>> /\ ownerStores THEN r.emit[1] ELSE value
     IN /\ value' = v
        /\ rotation' = IF v # value THEN rotationEffect(v, modes)
                       ELSE r.rotation
  /\ draggingRef' = r.draggingRef
  /\ baseRotationRef' = r.baseRotationRef
  /\ startAngleRef' = r.startAngleRef
  /\ emitted' = r.emit
  /\ dragEmits' =
       IF evt = "down" THEN 0
       ELSE IF evt \in {"move", "up", "cancel"}
       THEN Min2(MaxDragEmits, dragEmits + Len(r.emit))
       ELSE dragEmits
  /\ downRotation' = IF evt = "down" THEN rotation ELSE downRotation
  /\ downAngle' = IF evt = "down" THEN pointerAngle(pt) ELSE downAngle
  /\ lastEvent' = evt
  /\ lastPoint' = pt
  /\ UNCHANGED <<mounted, layout, other, app, modes, ownerStores, dialVars, probe>>

PointerDown == \E e \in PointerPoints : mdStep(onPointerDown(e), "down", e)

PointerMove == \E e \in PointerPoints : mdStep(onPointerMove(e), "move", e)

PointerUp == mdStep(onPointerUp, "up", NoPoint)

PointerCancel == mdStep(onPointerCancel, "cancel", NoPoint)

KeyDown == \E key \in Keys : mdStep(onKeyDown(key), key, NoPoint)

\* a click on the i-th label button of the ring
LabelClickOn(i) ==
  mdStep(onLabelClick(modesWithAngles(modes)[i].mode), "click", NoPoint)

LabelClick == \E i \in 1..Len(modes) : LabelClickOn(i)

\* the parent renders again with a fresh modes array and the same value
\* (App builds the array in its render body): the effect runs
OwnerRender ==
  /\ mounted = "ModeDial"
  /\ rotation' = rotationEffect(value, modes)
  /\ emitted' = <<>>
  /\ lastEvent' = "render"
  /\ lastPoint' = NoPoint
  /\ UNCHANGED <<mounted, layout, other, app, modes, value, ownerStores, draggingRef,
                 baseRotationRef, startAngleRef, dragEmits, downRotation,
                 downAngle, dialVars, probe>>

\* the parent renders ModeDial with another value prop: the effect runs
OwnerSetValue ==
  /\ mounted = "ModeDial"
  /\ \E v \in {modes[i] : i \in 1..Len(modes)} :
       /\ v # value
       /\ value' = v
       /\ rotation' = rotationEffect(v, modes)
  /\ emitted' = <<>>
  /\ lastEvent' = "value"
  /\ lastPoint' = NoPoint
  /\ UNCHANGED <<mounted, layout, other, app, modes, ownerStores, draggingRef,
                 baseRotationRef, startAngleRef, dragEmits, downRotation,
                 downAngle, dialVars, probe>>

\* a Dial handler ran; the parent that receives a value stores it
dialStep(r, evt, pt) ==
  /\ mounted = "Dial"
  /\ dragging' = r.dragging
  /\ dialEmitted' = r.emit
  /\ dialValue' = IF r.emit # <<>> THEN r.emit[1] ELSE dialValue
  /\ cancelSeen' = IF evt = "down" THEN FALSE
                   ELSE IF evt = "cancel" THEN TRUE ELSE cancelSeen
  /\ lastEvent' = evt
  /\ lastPoint' = pt
  /\ UNCHANGED <<mounted, layout, other, app, cfg, disabled, mdVars, probe>>

DialPointerDown == dialStep(handlePointerDown, "down", NoPoint)

DialPointerMove == \E e \in DialPoints : dialStep(handlePointerMove(e), "move", e)

DialPointerUp == dialStep(handlePointerUp, "up", NoPoint)

DialPointerCancel == dialStep(handlePointerCancel, "cancel", NoPoint)

DialMouseUp == dialStep(onMouseUp, "mouseup", NoPoint)

DialKeyDown == \E key \in DialKeys : dialStep(handleKeyDown(key), key, NoPoint)

\* the parent renders the Dial with the disabled prop changed
DialSetDisabled ==
  /\ mounted = "Dial"
  /\ disabled' = ~disabled
  /\ dialEmitted' = <<>>
  /\ lastEvent' = "render"
  /\ lastPoint' = NoPoint
  /\ UNCHANGED <<mounted, layout, other, app, cfg, dialValue, dragging, cancelSeen, mdVars, probe>>

Next ==
  \/ PointerDown
  \/ PointerMove
  \/ PointerUp
  \/ PointerCancel
  \/ KeyDown
  \/ LabelClick
  \/ OwnerRender
  \/ OwnerSetValue
  \/ DialPointerDown
  \/ DialPointerMove
  \/ DialPointerUp
  \/ DialPointerCancel
  \/ DialMouseUp
  \/ DialKeyDown
  \/ DialSetDisabled

Spec == Init /\ [][Next]_vars

----------------------------------------------------------------------------
(* ModeDial rendered with a label list that is empty or repeats a label *)

MalformedLists == {<< >>, <<"AUTO", "AUTO">>, <<"AUTO", "P", "AUTO">>}

InitMalformed == InitModeDialOf(MalformedLists, "sized")

NextMalformed ==
  \/ PointerDown
  \/ PointerMove
  \/ PointerUp
  \/ PointerCancel
  \/ KeyDown
  \/ LabelClick
  \/ OwnerRender

SpecMalformed == InitMalformed /\ [][NextMalformed]_vars

----------------------------------------------------------------------------
(* The controls laid out with no area: getBoundingClientRect() is all 0 *)

InitZeroRect == InitModeDialOf(ModeLists, "zero") \/ InitDialOf("zero")

NextZeroRect ==
  \/ PointerDown
  \/ PointerMove
  \/ PointerUp
  \/ DialPointerDown
  \/ DialPointerMove
  \/ DialPointerUp

SpecZeroRect == InitZeroRect /\ [][NextZeroRect]_vars

----------------------------------------------------------------------------
(* Two Dials on one page, each with its own pointer; every mounted Dial    *)
(* listens for 'mouseup' on the window                                     *)

\* pointer positions used on the two dials: above, right of and below the
\* centre
TwoDialPoints ==
  {e \in DialPoints :
     \/ e.clientX = dialSize \div 2 /\ e.clientY # dialSize \div 2
     \/ e.clientX = dialSize /\ e.clientY = dialSize \div 2}

InitTwoDials ==
  /\ mounted = "TwoDials"
  /\ cfg \in DialConfigs
  /\ dialValue = cfg.min
  /\ dragging = FALSE
  /\ disabled = FALSE
  /\ dialEmitted = <<>>
  /\ cancelSeen = FALSE
  /\ other = [value |-> cfg.min, dragging |-> FALSE, emitted |-> <<>>]
  /\ mdIdle
  /\ lastEvent = "mount"
  /\ lastPoint = NoPoint
  /\ probe = NoProbe
  /\ layout = "sized"
  /\ app = NoApp

\* handlers ran in the first Dial (r) and in the second (ro); each parent
\* stores the value it receives
twoStep(r, ro, evt, pt) ==
  /\ mounted = "TwoDials"
  /\ dragging' = r.dragging
  /\ dialEmitted' = r.emit
  /\ dialValue' = IF r.emit # <<>> THEN r.emit[1] ELSE dialValue
  /\ other' = [value |-> IF ro.emit # <<>> THEN ro.emit[1] ELSE other.value,
               dragging |-> ro.dragging,
               emitted |-> ro.emit]
  /\ lastEvent' = evt
  /\ lastPoint' = pt
  /\ UNCHANGED <<mounted, layout, app, cfg, disabled, cancelSeen, mdVars, probe>>

FirstPointerDown ==
  twoStep(handlePointerDown, dialKeepOf(other.dragging), "down", NoPoint)

FirstPointerMove ==
  \E e \in TwoDialPoints :
    twoStep(handlePointerMove(e), dialKeepOf(other.dragging), "move", e)

FirstPointerUp ==
  twoStep(handlePointerUp, dialKeepOf(other.dragging), "up", NoPoint)

OtherPointerDown ==
  twoStep(dialKeep, handlePointerDownOf(other.dragging), "other.down", NoPoint)

OtherPointerMove ==
  \E e \in TwoDialPoints :
    twoStep(dialKeep, handlePointerMoveOf(other.dragging, e), "other.move", e)

OtherPointerUp ==
  twoStep(dialKeep, handlePointerUpOf(other.dragging), "other.up", NoPoint)

\* the mouse button is released over the first Dial: its onPointerUp runs,
\* then the 'mouseup' event reaches the window, where both Dials listen
FirstMouseUp ==
  twoStep(onMouseUpOf(handlePointerUp.dragging), onMouseUpOf(other.dragging),
          "mouseup", NoPoint)

\* the mouse button is released over the second Dial
OtherMouseUp ==
  twoStep(onMouseUp, onMouseUpOf(handlePointerUpOf(other.dragging).dragging),
          "other.mouseup", NoPoint)

NextTwoDials ==
  \/ FirstPointerDown
  \/ FirstPointerMove
  \/ FirstPointerUp
  \/ FirstMouseUp
  \/ OtherPointerDown
  \/ OtherPointerMove
  \/ OtherPointerUp
  \/ OtherMouseUp

SpecTwoDials == InitTwoDials /\ [][NextTwoDials]_vars

----------------------------------------------------------------------------
(* A Dial whose range is a single value: max = min *)

\* min on the grid of multiples of step, and off it
DegenerateConfigs ==
  {[min |-> 5, max |-> 5, step |-> 1], [min |-> 3, max |-> 3, step |-> 2]}

InitDegenerate == InitDialWith(DegenerateConfigs, "sized")

NextDegenerate ==
  \/ DialPointerDown
  \/ DialPointerMove
  \/ DialPointerUp
  \/ DialPointerCancel
  \/ DialMouseUp
  \/ DialKeyDown
  \/ DialSetDisabled

SpecDegenerate == InitDegenerate /\ [][NextDegenerate]_vars

----------------------------------------------------------------------------
(* App.js: the camera stream *)

resolutions == {"640x480", "1280x720", "1920x1080"}

\* requestCamera up to its await, called from a render whose stream state
\* is closureStream: setError(''), the tracks of that stream stopped,
\* getUserMedia called
requestCamera(closureStream) ==
  [app EXCEPT !.error = FALSE,
              !.live = IF closureStream # 0 THEN app.live \ {closureStream}
                       ELSE app.live,
              !.pending = app.pending + 1,
              !.calls = app.calls + 1]

\* the stream the cleanup of the mount effect closes over: the effect has no
\* dependencies, so it is the stream state of the first render, null
cleanupStream == 0

\* App after its first render and the mount effect: requestCamera() called
InitCamera ==
  /\ mounted = "App"
  /\ app = [NoApp EXCEPT !.pending = 1, !.calls = 1]
  /\ mdIdle
  /\ dialIdle
  /\ lastEvent = "mount"
  /\ lastPoint = NoPoint
  /\ probe = NoProbe
  /\ layout = "sized"
  /\ other = NoOther

appStep(a, evt) ==
  /\ mounted = "App"
  /\ app' = a
  /\ lastEvent' = evt
  /\ UNCHANGED <<mounted, layout, other, mdVars, dialVars, lastPoint, probe>>

\* the handlers run in the latest render, whose requestCamera closes over
\* the current stream state
switchCamera ==
  /\ ~app.unmounted
  /\ app.calls < MaxRequests
  /\ appStep([requestCamera(app.stream) EXCEPT
                !.facingMode = IF app.facingMode = "user" THEN "environment"
                               ELSE "user"],
             "switchCamera")

\* onChange of the resolution select
changeResolution ==
  /\ ~app.unmounted
  /\ app.calls < MaxRequests
  /\ \E val \in resolutions \ {app.resolution} :
       appStep([requestCamera(app.stream) EXCEPT !.resolution = val],
               "resolution")

\* a getUserMedia promise is fulfilled with a new stream; the state setters
\* of an unmounted component do nothing
getUserMediaResolves ==
  /\ app.pending > 0
  /\ LET newStream == app.acquired + 1
     IN appStep([app EXCEPT
                   !.pending = app.pending - 1,
                   !.acquired = newStream,
                   !.live = app.live \cup {newStream},
                   !.stream = IF app.unmounted THEN app.stream ELSE newStream,
                   !.isReady = IF app.unmounted THEN app.isReady ELSE TRUE],
                "resolved")

\* a getUserMedia promise is rejected: the catch branch
getUserMediaRejects ==
  /\ app.pending > 0
  /\ appStep([app EXCEPT
                !.pending = app.pending - 1,
                !.error = IF app.unmounted THEN app.error ELSE TRUE,
                !.isReady = IF app.unmounted THEN app.isReady ELSE FALSE],
             "rejected")

\* App unmounts: the cleanup of the mount effect runs
unmount ==
  /\ ~app.unmounted
  /\ appStep([app EXCEPT
                !.unmounted = TRUE,
                !.live = IF cleanupStream # 0 THEN app.live \ {cleanupStream}
                         ELSE app.live],
             "unmount")

NextCamera ==
  \/ switchCamera
  \/ changeResolution
  \/ getUserMediaResolves
  \/ getUserMediaRejects
  \/ unmount

SpecCamera == InitCamera /\ [][NextCamera]_vars

----------------------------------------------------------------------------
(* App.js: the photo list *)

\* the length the photo list is cut to
PhotoLimit == 12

\* the first n elements of a list: Array.prototype.slice(0, n)
slice0(list, n) == SubSeq(list, 1, IF Len(list) < n THEN Len(list) ELSE n)

\* the updater of setPhotos without its slice
capturedPhotos_unbounded(prev, dataURL) == <<dataURL>> \o prev

\* the updater of setPhotos: the new data URL in front, cut to PhotoLimit
capturedPhotos(prev, dataURL) == slice0(<<dataURL>> \o prev, PhotoLimit)

\* capturePhoto with both refs set.  threw says that the canvas calls
\* (getContext, drawImage, toDataURL) raised; the finally block runs in
\* every case.  The data URL of a shot is named by the number of the shot
capturePhoto(threw) ==
  IF app.videoWidth = 0 \/ app.videoHeight = 0
  THEN [a |-> [app EXCEPT !.isCapturing = FALSE], evt |-> "captureSkipped"]
  ELSE IF threw
  THEN [a |-> [app EXCEPT !.isCapturing = FALSE], evt |-> "captureThrew"]
  ELSE [a |-> [app EXCEPT !.photos = capturedPhotos(app.photos, app.shots + 1),
                          !.shots = app.shots + 1,
                          !.isCapturing = FALSE],
        evt |-> "captured"]

\* App with its first stream acquired and the video metadata not yet loaded
InitGallery ==
  /\ mounted = "App"
  /\ app = [NoApp EXCEPT !.calls = 1, !.acquired = 1, !.stream = 1,
                         !.live = {1}, !.isReady = TRUE]
  /\ mdIdle
  /\ dialIdle
  /\ lastEvent = "resolved"
  /\ lastPoint = NoPoint
  /\ probe = NoProbe
  /\ layout = "sized"
  /\ other = NoOther

\* the video element reports the size of its frames; a size of zero in either
\* direction is a video without decoded frames
onLoadedMetadata ==
  \E w \in {0, 1280}, h \in {0, 720} :
    /\ <<w, h>> # <<app.videoWidth, app.videoHeight>>
    /\ appStep([app EXCEPT !.videoWidth = w, !.videoHeight = h,
                           !.isReady = TRUE],
               "loadedmetadata")

\* click on the shutter button, which is disabled unless the camera is ready
ShutterClick ==
  /\ app.isReady /\ ~app.error /\ ~app.isCapturing
  /\ app.shots < MaxShots
  /\ \E threw \in BOOLEAN :
       LET r == capturePhoto(threw) IN appStep(r.a, r.evt)

\* click on Clear, which is rendered while there are photos
ClearPhotos ==
  /\ Len(app.photos) > 0
  /\ appStep([app EXCEPT !.photos = <<>>], "clear")

NextGallery ==
  \/ onLoadedMetadata
  \/ ShutterClick
  \/ ClearPhotos

SpecGallery == InitGallery /\ [][NextGallery]_vars

----------------------------------------------------------------------------
(* The angle maps applied to chosen arguments *)

\* the canonical label set in other declaration orders
CanonicalOrders ==
  {canonical, <<"M", "S", "A", "P", "AUTO">>, <<"P", "AUTO", "S", "A", "M">>}

ProbeModeLists == ModeLists \cup CanonicalOrders

InitSnap ==
  /\ mounted = "AngleMap"
  /\ \E variant \in Variants, ms \in ProbeModeLists :
       \/ \E i \in 1..Len(ms) :
            probe = [stage |-> "label", variant |-> variant, modes |-> ms,
                     label |-> ms[i], deg |-> 0, out |-> ""]
       \/ \E deg \in 0..359 :
            probe = [stage |-> "deg", variant |-> variant, modes |-> ms,
                     label |-> "", deg |-> deg, out |-> ""]
       \/ probe = [stage |-> "stranger", variant |-> variant, modes |-> ms,
                   label |-> Stranger, deg |-> 0, out |-> ""]
  /\ mdIdle
  /\ dialIdle
  /\ lastEvent = "mount"
  /\ lastPoint = NoPoint
  /\ layout = "sized"
  /\ other = NoOther
  /\ app = NoApp

ApplyModeToRotation ==
  /\ mounted = "AngleMap"
  /\ probe.stage \in {"label", "stranger"}
  /\ probe' = [probe EXCEPT
                 !.stage = IF probe.stage = "label" THEN "rotation"
                           ELSE "fallback",
                 !.deg = modeToRotationOf(probe.variant, probe.label, probe.modes)]
  /\ UNCHANGED <<mounted, layout, other, app, mdVars, dialVars, lastEvent, lastPoint>>

ApplyRotationToMode ==
  /\ mounted = "AngleMap"
  /\ probe.stage \in {"rotation", "deg"}
  /\ probe' = [probe EXCEPT
                 !.stage = IF probe.stage = "rotation" THEN "snapped" ELSE "mapped",
                 !.out = rotationToModeOf(probe.variant, probe.deg, probe.modes)]
  /\ UNCHANGED <<mounted, layout, other, app, mdVars, dialVars, lastEvent, lastPoint>>

NextSnap == ApplyModeToRotation \/ ApplyRotationToMode

SpecSnap == InitSnap /\ [][NextSnap]_vars

----------------------------------------------------------------------------
(* The value maps of the Dial applied to chosen arguments *)

\* how many steps outside [min, max] a probed value may lie
MaxOver == 1

\* the Dial configurations, and the zoom dial of App in tenths
MapConfigs == DialConfigs \cup {[min |-> 10, max |-> 50, step |-> 1]}

\* the values min + k * step from MaxOver steps below min to MaxOver steps
\* above max, the midpoint of the range, and max when it is off the step grid
ProbeValues(c) ==
  {c.min + k * c.step :
     k \in (0 - MaxOver)..((c.max - c.min) \div c.step + MaxOver)}
  \cup {c.max}
  \cup (IF (c.min + c.max) % 2 = 0 THEN {(c.min + c.max) \div 2} ELSE {})

NoAngle == [num |-> 0, den |-> 1]

InitDialMap ==
  /\ mounted = "ValueMap"
  /\ cfg \in MapConfigs
  /\ \/ \E v \in ProbeValues(cfg) :
          probe = [stage |-> "value", v |-> v, v2 |-> v, a |-> NoAngle,
                   a2 |-> NoAngle, deg |-> 0, out |-> 0]
     \/ \E v \in ProbeValues(cfg), v2 \in ProbeValues(cfg) :
          /\ v < v2
          /\ probe = [stage |-> "pair", v |-> v, v2 |-> v2, a |-> NoAngle,
                      a2 |-> NoAngle, deg |-> 0, out |-> 0]
     \/ \E deg \in -180..180 :
          probe = [stage |-> "deg", v |-> 0, v2 |-> 0, a |-> NoAngle,
                   a2 |-> NoAngle, deg |-> deg, out |-> 0]
  /\ dialValue = cfg.min
  /\ dragging = FALSE /\ disabled = FALSE
  /\ dialEmitted = <<>> /\ cancelSeen = FALSE
  /\ mdIdle
  /\ lastEvent = "mount"
  /\ lastPoint = NoPoint
  /\ layout = "sized"
  /\ other = NoOther
  /\ app = NoApp

ApplyValueToAngle ==
  /\ mounted = "ValueMap"
  /\ probe.stage = "value"
  /\ probe' = [probe EXCEPT !.stage = "angle", !.a = valueToAngle(probe.v)]
  /\ UNCHANGED <<mounted, layout, other, app, mdVars, dialVars, lastEvent, lastPoint>>

ApplyValuePair ==
  /\ mounted = "ValueMap"
  /\ probe.stage = "pair"
  /\ probe' = [probe EXCEPT !.stage = "angles",
                            !.a = valueToAngle(probe.v),
                            !.a2 = valueToAngle(probe.v2)]
  /\ UNCHANGED <<mounted, layout, other, app, mdVars, dialVars, lastEvent, lastPoint>>

ApplyAngleToValue ==
  /\ mounted = "ValueMap"
  /\ probe.stage \in {"angle", "deg"}
  /\ probe' = [probe EXCEPT
                 !.stage = IF probe.stage = "angle" THEN "roundtrip"
                           ELSE "quantized",
                 !.out = IF probe.stage = "angle"
                         THEN angleToValueAt(probe.a.num, probe.a.den)
                         ELSE angleToValue(probe.deg)]
  /\ UNCHANGED <<mounted, layout, other, app, mdVars, dialVars, lastEvent, lastPoint>>

NextDialMap == ApplyValueToAngle \/ ApplyValuePair \/ ApplyAngleToValue

SpecDialMap == InitDialMap /\ [][NextDialMap]_vars

----------------------------------------------------------------------------
(* normalizeDeg applied to chosen angles *)

InitNormalize ==
  /\ mounted = "Normalize"
  /\ \E d \in (0 - 360 * MaxTurns)..(360 * MaxTurns),
        k \in (0 - MaxTurns)..MaxTurns :
       probe = [stage |-> "angle", d |-> d, k |-> k, out |-> 0, shifted |-> 0]
  /\ mdIdle
  /\ dialIdle
  /\ lastEvent = "mount"
  /\ lastPoint = NoPoint
  /\ layout = "sized"
  /\ other = NoOther
  /\ app = NoApp

ApplyNormalizeDeg ==
  /\ mounted = "Normalize"
  /\ probe.stage = "angle"
  /\ probe' = [probe EXCEPT !.stage = "normalized",
                            !.out = normalizeDeg(probe.d),
                            !.shifted = normalizeDeg(probe.d + 360 * probe.k)]
  /\ UNCHANGED <<mounted, layout, other, app, mdVars, dialVars, lastEvent, lastPoint>>

NextNormalize == ApplyNormalizeDeg

SpecNormalize == InitNormalize /\ [][NextNormalize]_vars

----------------------------------------------------------------------------
(* Properties *)

\* shortest distance between two angles on the circle
CircDist(a, b) == Min2(Abs(a - b), 360 - Abs(a - b))

\* the angles at which the labels of ms sit on the ring of ModeDial.js
LabelAngles(ms) == {modesWithAngles(ms)[i].angle : i \in 1..Len(ms)}

\* label is the first declared of the entries of mwa nearest to deg
FirstNearest(label, deg, mwa) ==
  \E i \in DOMAIN mwa :
    /\ mwa[i].mode = label
    /\ \A j \in DOMAIN mwa : CircDist(mwa[i].angle, deg) <= CircDist(mwa[j].angle, deg)
    /\ \A j \in 1..(i - 1) : CircDist(mwa[j].angle, deg) > CircDist(mwa[i].angle, deg)

\* label is an entry of mwa nearest to deg, and rot is the angle of that entry
NearestAt(label, rot, deg, mwa) ==
  \E i \in DOMAIN mwa :
    /\ mwa[i].mode = label
    /\ mwa[i].angle = rot
    /\ \A j \in DOMAIN mwa : CircDist(mwa[i].angle, deg) <= CircDist(mwa[j].angle, deg)

\* C1: pointer-down leaves the rotation as it was; after a pointer-move of a
\* drag the rotation is normalizeDeg(base + (current angle - anchor angle)),
\* base and anchor being the rotation and pointer angle at pointer-down; a
\* move back to the anchor angle restores the base rotation.
C1_DragAdditive ==
  mounted = "ModeDial" =>
    /\ lastEvent = "down" => rotation = downRotation
    /\ (lastEvent = "move" /\ draggingRef) =>
         rotation = normalizeDeg(downRotation + (pointerAngle(lastPoint) - downAngle))
    /\ (lastEvent = "move" /\ draggingRef /\ pointerAngle(lastPoint) = downAngle) =>
         rotation = downRotation

\* a move of a drag whose sum base + delta falls below 0 and wraps
C1_Witness ==
  /\ mounted = "ModeDial"
  /\ lastEvent = "move"
  /\ draggingRef
  /\ downRotation > 0
  /\ downRotation + (pointerAngle(lastPoint) - downAngle) < 0

\* C2: the pointer-up or pointer-cancel that ends a drag emits a label
\* nearest to the rotation at release and leaves the rotation on that
\* label's angle; whenever no drag is active the rotation is the angle of
\* some configured label.
C2_SnapOnRelease ==
  /\ [](mounted = "ModeDial" /\ ~draggingRef => rotation \in LabelAngles(modes))
  /\ [][(mounted = "ModeDial" /\ draggingRef /\ lastEvent' \in {"up", "cancel"}) =>
          /\ Len(emitted') = 1
          /\ NearestAt(emitted'[1], rotation', rotation, modesWithAngles(modes))]_vars

\* a drag released away from where it began
C2_Witness ==
  /\ mounted = "ModeDial"
  /\ lastEvent = "up"
  /\ emitted # <<>>
  /\ rotation # downRotation
  /\ ~ownerStores

\* C3: in every variant, snapping the rotation of a configured label gives
\* that label back.
C3_SnapIdempotent ==
  probe.stage = "snapped" => probe.out = probe.label

\* the hand-tuned angle of S in a reordered canonical list
C3_Witness ==
  /\ probe.stage = "snapped"
  /\ probe.variant = "part_002"
  /\ probe.modes = <<"P", "AUTO", "S", "A", "M">>
  /\ probe.label = "S"
  /\ probe.deg = 208

\* C4: rotationToMode returns a label at minimal circular distance from the
\* rotation, and of several such labels the first declared (ModeDial.js and
\* part_002).
C4_NearestFirstDeclared ==
  (probe.stage = "mapped" /\ probe.variant \in {"ModeDial.js", "part_002"}) =>
    FirstNearest(probe.out, probe.deg,
                 modesWithAnglesOf(probe.variant, probe.modes))

\* a rotation past 180 that is equally far from a label at 0 (reached over
\* the seam) and from a later label
C4_Witness ==
  /\ probe.stage = "mapped"
  /\ probe.variant \in {"ModeDial.js", "part_002"}
  /\ probe.deg > 180
  /\ LET mwa == modesWithAnglesOf(probe.variant, probe.modes)
     IN \E i, j \in DOMAIN mwa :
          /\ i < j
          /\ mwa[i].angle = 0
          /\ mwa[i].mode = probe.out
          /\ CircDist(mwa[i].angle, probe.deg) = CircDist(mwa[j].angle, probe.deg)

\* the label a key asks for when the current value is at 0-based index i
KeyTarget(key, i, ms) ==
  CASE key \in {"ArrowRight", "ArrowUp"} -> ms[((i + 1) % Len(ms)) + 1]
    [] key \in {"ArrowLeft", "ArrowDown"} -> ms[((i - 1 + Len(ms)) % Len(ms)) + 1]
    [] key = "Home" -> ms[1]
    [] key = "End" -> ms[Len(ms)]

NavKeys == {"ArrowRight", "ArrowUp", "ArrowLeft", "ArrowDown", "Home", "End"}

\* C5 as stated: with the value at index i, ArrowRight/ArrowUp emits
\* labels[(i+1) mod n], ArrowLeft/ArrowDown emits labels[(i-1+n) mod n], Home
\* emits the first label and End the last.
C5_KeyAlwaysEmits ==
  [][(mounted = "ModeDial" /\ lastEvent' \in NavKeys /\ findIndex(modes, value) >= 0) =>
       emitted' = <<KeyTarget(lastEvent', findIndex(modes, value), modes)>>]_vars

\* C5 amended: the same label is emitted whenever it differs from the current
\* value; when it is the current value (a one-label list, Home on the first
\* label, End on the last) nothing is emitted and rotation and value stay.
C5_KeyOrderWraps ==
  [][(mounted = "ModeDial" /\ lastEvent' \in NavKeys /\ findIndex(modes, value) >= 0) =>
       LET target == KeyTarget(lastEvent', findIndex(modes, value), modes)
       IN IF target # value
          THEN emitted' = <<target>>
          ELSE emitted' = <<>> /\ value' = value /\ rotation' = rotation]_vars

\* ArrowRight on the last of several labels gave the first
C5_Witness ==
  /\ mounted = "ModeDial"
  /\ lastEvent = "ArrowRight"
  /\ Len(modes) >= 3
  /\ ~ownerStores
  /\ value = modes[Len(modes)]
  /\ emitted = <<modes[1]>>

\* C6: every label passed to onChange is one of the configured labels,
\* whatever the current value is.
C6_EmittedIsConfigured ==
  (mounted = "ModeDial" /\ emitted # <<>>) =>
    \E i \in 1..Len(modes) : emitted[1] = modes[i]

\* a key command on a dial whose value is not one of its labels
C6_Witness ==
  /\ mounted = "ModeDial"
  /\ value = Stranger
  /\ lastEvent = "ArrowLeft"
  /\ emitted # <<>>

\* C7: a pointer-cancel during a drag ends the drag, emits the label nearest
\* to the rotation and leaves the rotation on that label's angle, as a
\* pointer-up would.
C7_CancelCommits ==
  [][(mounted = "ModeDial" /\ draggingRef /\ lastEvent' = "cancel") =>
       /\ ~draggingRef'
       /\ Len(emitted') = 1
       /\ FirstNearest(emitted'[1], rotation, modesWithAngles(modes))
       /\ rotation' \in LabelAngles(modes)
       /\ <<rotation', emitted'>> =
            <<modesWithAngles(modes)[findIndex(modes, emitted'[1]) + 1].angle,
              onPointerUp.emit>>]_vars

\* a drag cancelled away from where it began
C7_Witness ==
  /\ mounted = "ModeDial"
  /\ lastEvent = "cancel"
  /\ emitted # <<>>
  /\ rotation # downRotation
  /\ ~ownerStores

\* C8 as stated: after a pointer-down followed by a pointer-cancel, the
\* pointer-moves that follow emit no value until the next pointer-down.
C8_DialCancelEndsDrag ==
  (mounted = "Dial" /\ cancelSeen /\ lastEvent = "move") => dialEmitted = <<>>

\* C9: a pointer-up or pointer-cancel with no drag session changes nothing:
\* ModeDial emits no label and keeps its rotation, Dial emits no value.
C9_ReleaseWithoutDrag ==
  [][/\ (mounted = "ModeDial" /\ ~draggingRef /\ lastEvent' \in {"up", "cancel"}) =>
          /\ emitted' = <<>>
          /\ <<rotation', value', draggingRef'>> = <<rotation, value, draggingRef>>
     /\ (mounted = "Dial" /\ ~dragging /\ lastEvent' \in {"up", "cancel"}) =>
          /\ dialEmitted' = <<>>
          /\ <<dialValue', dragging'>> = <<dialValue, dragging>>]_vars

\* a pointer-up that found no drag to end: none was committed since the last
\* pointer-down, and the knob rests away from 0
C9_Witness ==
  /\ mounted = "ModeDial"
  /\ lastEvent = "up"
  /\ dragEmits = 0
  /\ emitted = <<>>
  /\ rotation # 0

\* C10: a pointer-move of a drag changes the rotation only and passes nothing
\* to onChange; the pointer handlers emit once per drag, at the pointer-up or
\* pointer-cancel that ends it.
C10_EmitOncePerDrag ==
  /\ [](mounted = "ModeDial" =>
          /\ lastEvent = "move" => emitted = <<>>
          /\ draggingRef => dragEmits = 0
          /\ dragEmits <= 1
          /\ (lastEvent \in {"up", "cancel"} /\ emitted # <<>>) => dragEmits = 1)
  /\ [][(mounted = "ModeDial" /\ lastEvent' = "move") =>
          <<value', draggingRef', baseRotationRef', startAngleRef'>> =
            <<value, draggingRef, baseRotationRef, startAngleRef>>]_vars

\* mid-drag: the knob sits between labels and nothing has been emitted
C10_Witness ==
  /\ mounted = "ModeDial"
  /\ lastEvent = "move"
  /\ draggingRef
  /\ rotation \notin LabelAngles(modes)
  /\ emitted = <<>>
  /\ dragEmits = 0

----------------------------------------------------------------------------
(* Properties of the Dial *)

\* v restricted to [min, max]
InRange(v) ==
  IF v < cfg.min THEN cfg.min ELSE IF v > cfg.max THEN cfg.max ELSE v

\* max(5 * step, (max - min) / 10), the range being a multiple of 10
BigStep ==
  IF 50 * cfg.step >= cfg.max - cfg.min THEN 5 * cfg.step
  ELSE (cfg.max - cfg.min) \div 10

\* the value a key command asks for
KeyResult(key, v) ==
  CASE key \in {"ArrowRight", "ArrowUp"} -> InRange(v + cfg.step)
    [] key \in {"ArrowLeft", "ArrowDown"} -> InRange(v - cfg.step)
    [] key = "PageUp" -> InRange(v + BigStep)
    [] key = "PageDown" -> InRange(v - BigStep)
    [] key = "Home" -> cfg.min
    [] key = "End" -> cfg.max
    [] OTHER -> v

\* C11: every value the Dial passes to onChange lies within [min, max],
\* whatever the current value was.
C11_EmittedInRange ==
  (mounted = "Dial" /\ dialEmitted # <<>>) =>
    (cfg.min <= dialEmitted[1] /\ dialEmitted[1] <= cfg.max)

\* ArrowLeft gave max: the value before it was above the range
C11_Witness ==
  /\ mounted = "Dial"
  /\ lastEvent = "ArrowLeft"
  /\ dialEmitted = <<cfg.max>>

\* C12 as stated: from a value min + k*step, with the owner storing what is
\* emitted, the value stays of the form min + k*step under key commands and
\* drag moves.
C12_ValueOnStepGrid ==
  [][(mounted = "Dial" /\ cfg.min <= dialValue /\ dialValue <= cfg.max
        /\ (dialValue - cfg.min) % cfg.step = 0) =>
       (dialValue' - cfg.min) % cfg.step = 0]_vars

\* C13: on an enabled Dial with the value in [min, max], the arrow keys give
\* clamp(v +/- step), the page keys clamp(v +/- max(5*step, (max-min)/10)),
\* Home gives min and End gives max.
C13_KeyCommandResult ==
  [][(mounted = "Dial" /\ ~disabled /\ lastEvent' \in DialKeys
        /\ cfg.min <= dialValue /\ dialValue <= cfg.max) =>
       /\ dialValue' = KeyResult(lastEvent', dialValue)
       /\ dialEmitted' \in {<<>>, <<KeyResult(lastEvent', dialValue)>>}]_vars

\* PageUp moved the ISO dial by (max - min) / 10 = 75
C13_Witness ==
  /\ mounted = "Dial"
  /\ cfg = [min |-> 50, max |-> 800, step |-> 10]
  /\ lastEvent = "PageUp"
  /\ dialEmitted = <<125>>

\* C14: a key command whose result is the current value passes nothing to
\* onChange and leaves the value as it is.
C14_KeyNoChangeNoEmit ==
  [][(mounted = "Dial" /\ lastEvent' \in DialKeys
        /\ KeyResult(lastEvent', dialValue) = dialValue) =>
       (dialEmitted' = <<>> /\ dialValue' = dialValue)]_vars

\* End on an enabled dial that stands at max
C14_Witness ==
  /\ mounted = "Dial"
  /\ ~disabled
  /\ lastEvent = "End"
  /\ dialValue = cfg.max
  /\ dialEmitted = <<>>

\* the angle of a pointer about the centre of the Dial, from the +x axis, in
\* [0, 360)
DialPointerAngle(e) ==
  LET t == Atan2Deg(e.clientY - (dialRect.top + dialRect.height \div 2),
                    e.clientX - (dialRect.left + dialRect.width \div 2))
  IN IF t < 0 THEN t + 360 ELSE t

\* v is within half a step of the value that lies linearly at angle theta
\* of the sweep
NearLinear(v, theta) ==
  LET a == (IF theta >= 180 THEN theta - 360 ELSE theta) - startAngle
      rawNum == cfg.min * sweep + a * (cfg.max - cfg.min)
  IN /\ cfg.min <= v /\ v <= cfg.max
     /\ 2 * Abs(v * sweep - rawNum) <= sweep * cfg.step

\* C19 as stated: a pointer-move of a drag whose pointer angle is in the dead zone
\* (135, 225) emits min when the angle is nearer the sweep start (225) and max
\* when it is nearer the sweep end (135), never a value between; inside the
\* sweep it emits the linear value of the angle rounded to a step.
C19_ArcClamp ==
  (mounted = "Dial" /\ lastEvent = "move" /\ dragging) =>
    LET theta == DialPointerAngle(lastPoint)
    IN /\ Len(dialEmitted) = 1
       /\ (135 < theta /\ theta < 225) =>
            /\ dialEmitted[1] \in {cfg.min, cfg.max}
            /\ CircDist(theta, 225) < CircDist(theta, 135) => dialEmitted[1] = cfg.min
            /\ CircDist(theta, 135) < CircDist(theta, 225) => dialEmitted[1] = cfg.max
       /\ ~(135 < theta /\ theta < 225) => NearLinear(dialEmitted[1], theta)

\* v lies in [min, max] and on the step grid that starts at min
OnGrid(v) ==
  /\ cfg.min <= v /\ v <= cfg.max
  /\ (v - cfg.min) % cfg.step = 0

\* C15 as stated: angleToValue(valueToAngle(v)) = v for every v in [min, max]
\* of the form min + k*step.
C15_RoundTrip ==
  (mounted = "ValueMap" /\ probe.stage = "roundtrip" /\ OnGrid(probe.v)) =>
    probe.out = probe.v

\* min + round((raw - min) / step) * step, restricted to [min, max], for the
\* angle of deg degrees restricted to the sweep
QuantizedFromMin(deg) ==
  LET a == Max2(0, Min2(sweep, deg - startAngle))
  IN InRange(cfg.min
             + MathRound(a * (cfg.max - cfg.min), sweep * cfg.step) * cfg.step)

\* C16 as stated: angleToValue gives clamp(min + round((raw - min)/step)*step),
\* so a value on the step grid from min, or a range bound.
C16_QuantizeFromMin ==
  (mounted = "ValueMap" /\ probe.stage = "quantized") =>
    /\ probe.out = QuantizedFromMin(probe.deg)
    /\ (OnGrid(probe.out) \/ probe.out = cfg.max)

\* C17: valueToAngle is the linear map of clamp(value) onto [-135, 135]: min
\* and all below it go to -135, max and all above it to 135, the midpoint to
\* 0, and no angle is outside [-135, 135].
C17_LinearOntoSweep ==
  (mounted = "ValueMap" /\ probe.stage = "angle") =>
    LET num == probe.a.num
        den == probe.a.den
        v == probe.v
    IN /\ den > 0
       /\ num * (cfg.max - cfg.min) =
            den * ((0 - 135) * (cfg.max - cfg.min) + (InRange(v) - cfg.min) * 270)
       /\ (0 - 135) * den <= num /\ num <= 135 * den
       /\ v <= cfg.min => num = (0 - 135) * den
       /\ v >= cfg.max => num = 135 * den
       /\ 2 * v = cfg.min + cfg.max => num = 0

\* a value above max went to 135
C17_Witness ==
  /\ mounted = "ValueMap"
  /\ probe.stage = "angle"
  /\ probe.v > cfg.max
  /\ probe.a.num = 135 * probe.a.den

\* C18: for v1 < v2, valueToAngle(v1) <= valueToAngle(v2), and the first is
\* strictly smaller when both values are in [min, max].
C18_Monotonic ==
  (mounted = "ValueMap" /\ probe.stage = "angles" /\ probe.v < probe.v2) =>
    /\ probe.a.num * probe.a2.den <= probe.a2.num * probe.a.den
    /\ (cfg.min <= probe.v /\ probe.v2 <= cfg.max) =>
         probe.a.num * probe.a2.den < probe.a2.num * probe.a.den

\* two values in range went to two angles, and a pair above max to one
C18_Witness ==
  /\ mounted = "ValueMap"
  /\ probe.stage = "angles"
  /\ cfg.min < probe.v /\ probe.v < probe.v2 /\ probe.v2 < cfg.max
  /\ probe.a.num * probe.a2.den < probe.a2.num * probe.a.den

\* the angle clockwise from straight up of a point on an axis through the
\* centre of the rotor
ClockwiseFromTop(e) ==
  LET dx == e.clientX - (rotorRect.left + rotorRect.width \div 2)
      dy == e.clientY - (rotorRect.top + rotorRect.height \div 2)
  IN IF dx = 0 THEN (IF dy < 0 THEN 0 ELSE 180)
     ELSE IF dx > 0 THEN 90 ELSE 270

\* C20 as stated: the angle ModeDial takes at a pointer-down away from the
\* centre is in [0, 360), 0 straight above the centre, 90 to the right of it,
\* 180 below and 270 to the left.
C20_ClockwiseFromTop ==
  (mounted = "ModeDial" /\ lastEvent = "down"
     /\ lastPoint # [clientX |-> size \div 2, clientY |-> size \div 2]) =>
    /\ 0 <= startAngleRef /\ startAngleRef < 360
    /\ startAngleRef = ClockwiseFromTop(lastPoint)

\* C21: normalizeDeg(d) is in [0, 360) for positive, zero and negative d, and
\* normalizeDeg(d) = normalizeDeg(d + 360 * k) for every integer k.
C21_NormalizeDeg ==
  (mounted = "Normalize" /\ probe.stage = "normalized") =>
    /\ 0 <= probe.out /\ probe.out < 360
    /\ probe.shifted = probe.out

\* a negative angle, shifted by whole turns to a positive one
C21_Witness ==
  /\ mounted = "Normalize"
  /\ probe.stage = "normalized"
  /\ probe.d = 0 - 90
  /\ probe.k = 2
  /\ probe.out = 270
  /\ probe.shifted = 270

\* C22: in ModeDial the label at index i of n labels (from 0) has the
\* rotation i * 360 / n, which is the angle its button has on the ring; for
\* AUTO, P, A, S, M the label A has 144 and the rotation 150 maps to A.
C22_EvenSpacing ==
  (mounted = "AngleMap" /\ probe.variant = "ModeDial.js") =>
    /\ probe.stage = "rotation" =>
         \A i \in 1..Len(probe.modes) :
           probe.modes[i] = probe.label =>
             /\ probe.deg = ((i - 1) * 360) \div Len(probe.modes)
             /\ probe.deg = modesWithAngles(probe.modes)[i].angle
    /\ (probe.stage = "mapped" /\ probe.modes = canonical /\ probe.deg = 150) =>
         probe.out = "A"

\* the rotation of A among AUTO, P, A, S, M
C22_Witness ==
  /\ mounted = "AngleMap"
  /\ probe.variant = "ModeDial.js"
  /\ probe.stage = "rotation"
  /\ probe.modes = canonical
  /\ probe.label = "A"
  /\ probe.deg = 144

\* C24 as stated: modeToRotation gives no rotation for a label that is not in
\* the list (ModeDial.js and part_002).
C24_UnknownLabelFails ==
  (mounted = "AngleMap" /\ probe.stage = "fallback"
     /\ probe.variant \in {"ModeDial.js", "part_002"}) =>
    probe.deg \notin 0..359

\* a label list that is empty or has a label twice
Malformed(ms) ==
  \/ Len(ms) = 0
  \/ \E i, j \in 1..Len(ms) : i < j /\ ms[i] = ms[j]

\* C23 as stated: a ModeDial with an empty label list or duplicate labels is
\* rejected at construction, so it handles no event and emits no label.
C23_MalformedRejected ==
  (mounted = "ModeDial" /\ Malformed(modes)) =>
    (lastEvent = "mount" /\ emitted = << >>)

\* C25 as stated: with a rotor rectangle of zero size, pointer-down and
\* pointer-move are ignored: no drag session starts, the ModeDial rotation
\* stays where it rested and the Dial emits nothing.
C25_ZeroRectIgnored ==
  (layout = "zero" /\ lastEvent \in {"down", "move"}) =>
    /\ mounted = "ModeDial" =>
         (~draggingRef /\ rotation = rotationEffect(value, modes))
    /\ mounted = "Dial" => (~dragging /\ dialEmitted = << >>)

\* C26: a click on the button of a label passes exactly that label to
\* onChange and leaves the knob at that label's angle in the same step; it
\* neither starts nor ends a drag session.
C26_LabelClick ==
  [][(mounted = "ModeDial" /\ lastEvent' = "click") =>
       \A i \in 1..Len(modes) :
         LabelClickOn(i) =>
           /\ emitted' = <<modes[i]>>
           /\ rotation' = ((i - 1) * 360) \div Len(modes)
           /\ draggingRef' = draggingRef
           /\ baseRotationRef' = baseRotationRef
           /\ startAngleRef' = startAngleRef]_vars

\* the button of P clicked while a drag session is open
C26_Witness ==
  /\ mounted = "ModeDial"
  /\ lastEvent = "click"
  /\ Len(modes) = 5
  /\ emitted = <<"P">>
  /\ rotation = 72
  /\ draggingRef

\* the events addressed to the second Dial
OtherEvents == {"other.down", "other.move", "other.up", "other.mouseup"}

\* C27 as stated: two controls dragged at the same time are independent: an
\* event addressed to one of them leaves the dragging state and the value of
\* the other as they are and makes the other emit nothing.
C27_InstancesIndependent ==
  [][mounted = "TwoDials" =>
       /\ lastEvent' \in OtherEvents =>
            /\ dragging' = dragging
            /\ dialValue' = dialValue
            /\ dialEmitted' = << >>
       /\ lastEvent' \notin OtherEvents =>
            /\ other'.dragging = other.dragging
            /\ other'.value = other.value
            /\ other'.emitted = << >>]_vars

\* the point of the rotor's edge in the direction in which the ring shows a
\* label placed at angle (a multiple of 90)
LabelPoint(angle) ==
  LET pos == polar([x |-> rotorRect.left + rotorRect.width \div 2,
                    y |-> rotorRect.top + rotorRect.height \div 2],
                   size \div 2, angle)
  IN [clientX |-> pos.x, clientY |-> pos.y]

\* C28 as stated: with the knob resting on the first label, a drag from that
\* label's place on screen (the top) to the place of label j, followed by
\* pointer-up, commits label j; so a clockwise drag by one spacing selects
\* the next label of the list.
C28_DragToLabelSelectsIt ==
  [][(mounted = "ModeDial" /\ draggingRef
        /\ lastEvent = "move" /\ lastEvent' = "up"
        /\ downRotation = 0 /\ downAngle = 0) =>
       \A j \in 1..Len(modes) :
         LET angle == modesWithAngles(modes)[j].angle
         IN (angle % 90 = 0 /\ lastPoint = LabelPoint(angle)) =>
              emitted' = <<modes[j]>>]_vars

\* C29 as stated: while a drag is in progress, a re-render of the owner with
\* the value unchanged leaves the knob rotation as the drag set it.
C29_RenderKeepsDragRotation ==
  [][(mounted = "ModeDial" /\ draggingRef /\ lastEvent' = "render") =>
       rotation' = rotation]_vars

\* C30: in every state of ModeDial the knob rotation is in [0, 360).
C30_RotationInRange ==
  mounted = "ModeDial" => (0 <= rotation /\ rotation < 360)

\* a drag against the clock from the resting angle 0: base plus delta is
\* negative
C30_Witness ==
  /\ mounted = "ModeDial"
  /\ draggingRef
  /\ lastEvent = "move"
  /\ baseRotationRef + (pointerAngle(lastPoint) - startAngleRef) < 0
  /\ rotation = 270

\* C31: whenever no drag is in progress and the owner stores every emitted
\* label, the knob rotation is modeToRotation(value): the angle of the
\* selected label, or 0 when the value is no label of the list.
C31_RotationMatchesValue ==
  (mounted = "ModeDial" /\ ownerStores /\ ~draggingRef /\ ~Malformed(modes)) =>
    /\ \A i \in 1..Len(modes) :
         modes[i] = value => rotation = ((i - 1) * 360) \div Len(modes)
    /\ (\A i \in 1..Len(modes) : modes[i] # value) => rotation = 0

\* a drag that ended on another label than the one it started from
C31_Witness ==
  /\ mounted = "ModeDial"
  /\ ownerStores
  /\ ~draggingRef
  /\ lastEvent = "up"
  /\ emitted = <<value>>
  /\ rotation # downRotation
  /\ rotation = modeToRotation(value, modes)

\* C32: a pointer-move on a Dial with no drag in progress emits nothing, and
\* a drag begins only with a pointer-down on a Dial that is not disabled.
C32_MoveNeedsDrag ==
  [][mounted = "Dial" =>
       /\ (lastEvent' = "move" /\ ~dragging) => dialEmitted' = << >>
       /\ (~dragging /\ dragging') => (lastEvent' = "down" /\ ~disabled)]_vars

\* a pointer-move after the pointer-up of a drag
C32_Witness ==
  /\ mounted = "Dial"
  /\ ~disabled
  /\ lastEvent = "move"
  /\ ~dragging
  /\ dialEmitted = << >>
  /\ dialValue \notin {cfg.min - cfg.step, cfg.min, cfg.min + cfg.step,
                       cfg.max, cfg.max + cfg.step}

\* C33 as stated: while disabled is true the Dial never calls onChange,
\* whatever the event and whatever happened before.
C33_DisabledSilent ==
  (mounted = "Dial" /\ disabled) => dialEmitted = << >>

\* C34: with max = min the rotor angle valueToAngle(value) is -135 for every
\* value, computed with a divisor that is not 0, and every emitted value is
\* min.
C34_DegenerateRange ==
  (mounted = "Dial" /\ cfg.max = cfg.min) =>
    /\ valueToAngle(dialValue).den # 0
    /\ valueToAngle(dialValue).num = (0 - 135) * valueToAngle(dialValue).den
    /\ dialEmitted # << >> => dialEmitted[1] = cfg.min

\* a drag move on a degenerate Dial whose value was out of range
C34_Witness ==
  /\ mounted = "Dial"
  /\ cfg = [min |-> 3, max |-> 3, step |-> 2]
  /\ lastEvent = "move"
  /\ dialEmitted = <<3>>

\* C35 as stated: after any interleaving of camera requests and of the
\* completions of their getUserMedia calls, at most one acquired stream has
\* tracks that are not stopped.
C35_OneLiveStream ==
  mounted = "App" => Cardinality(app.live) <= 1

\* C36 as stated: after App unmounted while holding an acquired stream, the
\* tracks of that stream are stopped.
C36_UnmountStopsStream ==
  (mounted = "App" /\ app.unmounted /\ app.stream # 0) =>
    app.stream \notin app.live

\* C37: the photo list never holds more than 12 photos; a successful capture
\* puts the new photo first, keeps the order of the others and drops the
\* oldest ones beyond 12; a capture with a video width or height of zero adds
\* nothing; isCapturing is false after every capture attempt.
C37_PhotoList ==
  [][mounted = "App" =>
       /\ Len(app'.photos) <= 12
       /\ lastEvent' \in {"captured", "captureSkipped", "captureThrew"} =>
            ~app'.isCapturing
       /\ lastEvent' = "captured" =>
            /\ Len(app'.photos) = (IF Len(app.photos) < 12
                                   THEN Len(app.photos) + 1 ELSE 12)
            /\ app'.photos[1] \notin {app.photos[i] : i \in 1..Len(app.photos)}
            /\ \A i \in 2..Len(app'.photos) : app'.photos[i] = app.photos[i - 1]
       /\ (lastEvent' \in {"captured", "captureSkipped", "captureThrew"}
           /\ (app.videoWidth = 0 \/ app.videoHeight = 0)) =>
            app'.photos = app.photos]_vars

\* a capture onto a full list: the new photo first, the oldest one dropped
C37_Witness ==
  /\ mounted = "App"
  /\ lastEvent = "captured"
  /\ Len(app.photos) = 12
  /\ app.shots > 12
  /\ app.photos[1] = app.shots
  /\ app.photos[12] = app.shots - 11
  /\ ~app.isCapturing

====
